---- MODULE Spec2Model ----
(***************************************************************************)
(* The translation pipeline of the AI-Translator repository: the Security  *)
(* Screener, the Language Detector, the Translator with its Chunker, the   *)
(* PDF Extractor and the two endpoints that sequence them.                 *)
(*                                                                         *)
(* A Python str is a sequence of one-character strings.  The model backend *)
(* (mistral_client) is the environment: every call is answered by one of a *)
(* small set of replies or fails.                                          *)
(*                                                                         *)
(* Lengths that cannot be enumerated at their source value are scaled and  *)
(* say so where they are defined; the block list, the OCR threshold and the*)
(* preview lengths keep their source values.                               *)
(***************************************************************************)
EXTENDS Integers, Sequences, FiniteSets, TLC

\* ------------------------------------------------------------------------
\* Bounds of the model
\* ------------------------------------------------------------------------

\* Longest text handed to _split_into_chunks in ChunkerSpec.
MaxLen == 8

\* Longest request body enumerated over BodyAlphabet in Spec.
MaxBody == 3

\* ------------------------------------------------------------------------
\* Program constants
\* ------------------------------------------------------------------------

\* TranslationAgent.MAX_CHUNK_SIZE (4000 in the source, scaled 1:1000).
MAX_CHUNK_SIZE == 4

\* Settings.MAX_INPUT_LENGTH (50000 in the source, scaled 1:200).
MAX_INPUT_LENGTH == 250

\* text[:5000] in SecurityAgent.analyze (scaled 1:1000).
SECURITY_SAMPLE == 5

\* text[:1000] in LanguageAgent.detect (scaled 1:333).
DETECT_SAMPLE == 3

\* text[:100] in translate_text, extracted_text[:200] in translate_pdf.
TEXT_PREVIEW == 100
PDF_PREVIEW == 200

\* len(cleaned_text.strip()) > 50 in PDFProcessor.extract_text.
MIN_DIRECT_LENGTH == 50

\* Settings.MAX_FILE_SIZE_MB and PDFProcessor.MAX_FILE_SIZE (bytes).
MAX_FILE_SIZE_MB == 10
MAX_FILE_SIZE == MAX_FILE_SIZE_MB * 1024 * 1024

\* Risk scores are floats in the source; the model counts hundredths.
RISK_PATTERN == 90
RISK_LENGTH == 70
RISK_FAIL_OPEN == 30
RISK_BLOCK_THRESHOLD == 70
RISK_WARN_THRESHOLD == 40
RISK_DEFAULT == 0
RISK_MIN == 0
RISK_MAX == 100

\* Confidence in hundredths: the default of response.get("confidence", 0.8)
\* and the clamp min(max(confidence, 0), 1).
CONFIDENCE_DEFAULT == 80
CONFIDENCE_MIN == 0
CONFIDENCE_MAX == 100

\* ------------------------------------------------------------------------
\* Python str operations
\* ------------------------------------------------------------------------

\* Characters str.strip() removes and \s matches.
Whitespace == {" ", "\n", "\t", "\r"}

\* The character class [.!?] of _split_into_sentences.
SentenceEnd == {".", "!", "?"}

\* The null byte '\x00'.
NUL == "NUL"

UpperToLower ==
    "A" :> "a" @@ "B" :> "b" @@ "C" :> "c" @@ "D" :> "d" @@ "E" :> "e" @@
    "F" :> "f" @@ "G" :> "g" @@ "H" :> "h" @@ "I" :> "i" @@ "J" :> "j" @@
    "K" :> "k" @@ "L" :> "l" @@ "M" :> "m" @@ "N" :> "n" @@ "O" :> "o" @@
    "P" :> "p" @@ "Q" :> "q" @@ "R" :> "r" @@ "S" :> "s" @@ "T" :> "t" @@
    "U" :> "u" @@ "V" :> "v" @@ "W" :> "w" @@ "X" :> "x" @@ "Y" :> "y" @@
    "Z" :> "z"

LowerChar(c) == IF c \in DOMAIN UpperToLower THEN UpperToLower[c] ELSE c

\* str.lower()
Lower(s) == [i \in 1..Len(s) |-> LowerChar(s[i])]

UpperChar(c) ==
    IF \E u \in DOMAIN UpperToLower : UpperToLower[u] = c
    THEN CHOOSE u \in DOMAIN UpperToLower : UpperToLower[u] = c
    ELSE c

\* str.upper()
Upper(s) == [i \in 1..Len(s) |-> UpperChar(s[i])]

\* s[:n]
Take(s, n) == SubSeq(s, 1, IF Len(s) < n THEN Len(s) ELSE n)

\* s[n:]
Drop(s, n) == SubSeq(s, n + 1, Len(s))

\* s.startswith(p) at offset i (1-based): s[i .. i+len(p)-1] = p
MatchAt(s, i, p) == i >= 1 /\ i + Len(p) - 1 <= Len(s) /\ SubSeq(s, i, i + Len(p) - 1) = p

\* p in s
Contains(s, p) == \E i \in 1..(Len(s) - Len(p) + 1) : MatchAt(s, i, p)

\* s.endswith(p)
EndsWith(s, p) == Len(p) <= Len(s) /\ SubSeq(s, Len(s) - Len(p) + 1, Len(s)) = p

\* The least and the greatest element of a non-empty set of integers.
Min(S) == CHOOSE x \in S : \A y \in S : x <= y
Max(S) == CHOOSE x \in S : \A y \in S : x >= y

\* s.find(p) + 1: the first offset at which p occurs in s, 0 when it does not.
Find(s, p) ==
    LET at == {i \in 1..(Len(s) - Len(p) + 1) : MatchAt(s, i, p)}
    IN IF at = {} THEN 0 ELSE Min(at)

\* str.strip()
Strip(s) ==
    LET kept == {i \in 1..Len(s) : s[i] \notin Whitespace}
    IN IF kept = {} THEN <<>> ELSE SubSeq(s, Min(kept), Max(kept))

\* c * n
Rep(c, n) == [i \in 1..n |-> c]

\* "".join(parts)
RECURSIVE Concat(_)
Concat(parts) == IF parts = <<>> THEN <<>> ELSE Head(parts) \o Concat(Tail(parts))

\* sep.join(parts)
RECURSIVE Join(_, _)
Join(parts, sep) ==
    IF parts = <<>> THEN <<>>
    ELSE IF Len(parts) = 1 THEN parts[1]
    ELSE parts[1] \o sep \o Join(Tail(parts), sep)

\* The paragraph separator '\n\n'.
PARAGRAPH_SEP == <<"\n", "\n">>

\* s.split(sep) for a non-empty separator: the pieces between the
\* non-overlapping occurrences of sep, found left to right.
RECURSIVE Split(_, _)
Split(s, sep) ==
    IF Find(s, sep) = 0 THEN <<s>>
    ELSE <<SubSeq(s, 1, Find(s, sep) - 1)>> \o Split(Drop(s, Find(s, sep) + Len(sep) - 1), sep)

\* ------------------------------------------------------------------------
\* Chunker (TranslationAgent._split_into_chunks / _split_into_sentences)
\* ------------------------------------------------------------------------

\* The first match of (?<=[.!?])\s+ in s: a maximal run of whitespace whose
\* preceding character is in [.!?]; from = 0 when there is none.
SentenceBreak(s) ==
    LET starts == {i \in 2..Len(s) : s[i] \in Whitespace /\ s[i - 1] \in SentenceEnd}
        from == IF starts = {} THEN 0 ELSE Min(starts)
        ends == {j \in from..Len(s) : \A k \in from..j : s[k] \in Whitespace}
    IN [from |-> from, to |-> IF starts = {} THEN 0 ELSE Max(ends)]

\* re.split(r'(?<=[.!?])\s+', text)
RECURSIVE ReSplitSentences(_)
ReSplitSentences(s) ==
    IF SentenceBreak(s).from = 0 THEN <<s>>
    ELSE <<SubSeq(s, 1, SentenceBreak(s).from - 1)>>
         \o ReSplitSentences(Drop(s, SentenceBreak(s).to))

\* [s.strip() for s in sentences if s.strip()]
RECURSIVE StripNonEmpty(_)
StripNonEmpty(ss) ==
    IF ss = <<>> THEN <<>>
    ELSE IF Strip(Head(ss)) # <<>>
         THEN <<Strip(Head(ss))>> \o StripNonEmpty(Tail(ss))
         ELSE StripNonEmpty(Tail(ss))

_split_into_sentences(text) == StripNonEmpty(ReSplitSentences(text))

\* The state of the loop of _split_into_chunks: chunks and current_chunk.
EmptyBuffer == [chunks |-> <<>>, current_chunk |-> <<>>]

\* A fault of the flush test: the length of the buffer is left out of the sum.
FlushIfUnitFull(st, unit) ==
    IF Len(unit) > MAX_CHUNK_SIZE /\ st.current_chunk # <<>>
    THEN [chunks |-> Append(st.chunks, Strip(st.current_chunk)), current_chunk |-> <<>>]
    ELSE st

\* if len(current_chunk) + len(unit) > MAX_CHUNK_SIZE and current_chunk:
\*     chunks.append(current_chunk.strip()); current_chunk = ""
FlushIfFull(st, unit) ==
    IF Len(st.current_chunk) + Len(unit) > MAX_CHUNK_SIZE /\ st.current_chunk # <<>>
    THEN [chunks |-> Append(st.chunks, Strip(st.current_chunk)), current_chunk |-> <<>>]
    ELSE st

\* for sentence in sentences: flush if full; current_chunk += sentence + " "
RECURSIVE AddSentences(_, _)
AddSentences(st, sentences) ==
    IF sentences = <<>> THEN st
    ELSE LET f == FlushIfFull(st, Head(sentences))
         IN AddSentences([chunks |-> f.chunks,
                          current_chunk |-> f.current_chunk \o Head(sentences) \o <<" ">>],
                         Tail(sentences))

\* The body of "for para in paragraphs".
AddParagraph(st, para) ==
    LET f == FlushIfFull(st, para)
    IN IF Len(para) > MAX_CHUNK_SIZE
       THEN AddSentences(f, _split_into_sentences(para))
       ELSE [chunks |-> f.chunks,
             current_chunk |-> f.current_chunk \o para \o PARAGRAPH_SEP]

RECURSIVE AddParagraphs(_, _)
AddParagraphs(st, paragraphs) ==
    IF paragraphs = <<>> THEN st
    ELSE AddParagraphs(AddParagraph(st, Head(paragraphs)), Tail(paragraphs))

\* A fault of the end of _split_into_chunks: the last buffer is forgotten.
FlushNothing(st) == st.chunks

\* if current_chunk.strip(): chunks.append(current_chunk.strip())
FlushLast(st) ==
    IF Strip(st.current_chunk) # <<>>
    THEN Append(st.chunks, Strip(st.current_chunk))
    ELSE st.chunks

\* return chunks if chunks else [text]
_split_into_chunks(text) ==
    LET chunks == FlushLast(AddParagraphs(EmptyBuffer, Split(text, PARAGRAPH_SEP)))
    IN IF chunks # <<>> THEN chunks ELSE <<text>>

\* ------------------------------------------------------------------------
\* Security Screener (SecurityAgent)
\* ------------------------------------------------------------------------

\* Settings.BLOCKED_PATTERNS
BLOCKED_PATTERNS == <<
    <<"i", "g", "n", "o", "r", "e", " ", "p", "r", "e", "v", "i", "o", "u", "s", " ",
      "i", "n", "s", "t", "r", "u", "c", "t", "i", "o", "n", "s">>,
    <<"i", "g", "n", "o", "r", "e", " ", "a", "l", "l", " ",
      "i", "n", "s", "t", "r", "u", "c", "t", "i", "o", "n", "s">>,
    <<"d", "i", "s", "r", "e", "g", "a", "r", "d", " ", "y", "o", "u", "r", " ",
      "i", "n", "s", "t", "r", "u", "c", "t", "i", "o", "n", "s">>,
    <<"f", "o", "r", "g", "e", "t", " ", "y", "o", "u", "r", " ",
      "i", "n", "s", "t", "r", "u", "c", "t", "i", "o", "n", "s">>,
    <<"s", "y", "s", "t", "e", "m", " ", "p", "r", "o", "m", "p", "t">>,
    <<"r", "e", "v", "e", "a", "l", " ", "y", "o", "u", "r", " ", "p", "r", "o", "m", "p", "t">>,
    <<"s", "h", "o", "w", " ", "y", "o", "u", "r", " ",
      "i", "n", "s", "t", "r", "u", "c", "t", "i", "o", "n", "s">> >>

\* self.blocked_patterns = [p.lower() for p in settings.BLOCKED_PATTERNS]
blocked_patterns == [i \in 1..Len(BLOCKED_PATTERNS) |-> Lower(BLOCKED_PATTERNS[i])]

\* The literal injection patterns \[INST\], \[/INST\], <system>, </system>,
\* lower-cased, as re.IGNORECASE compares them.
INJECTION_LITERALS == {
    <<"[", "i", "n", "s", "t", "]">>,
    <<"[", "/", "i", "n", "s", "t", "]">>,
    <<"<", "s", "y", "s", "t", "e", "m", ">">>,
    <<"<", "/", "s", "y", "s", "t", "e", "m", ">">> }

\* The words after ###\s* in the patterns ###\s*instruction and ###\s*system.
INJECTION_HEADINGS == {
    <<"i", "n", "s", "t", "r", "u", "c", "t", "i", "o", "n">>,
    <<"s", "y", "s", "t", "e", "m">> }

\* re.search(r'<\|.*?\|>', text): "<|" and a later "|>" with no newline between
\* them ('.' does not match '\n').
MatchesDelimiterToken(text) ==
    \E i \in 1..Len(text) : \E j \in (i + 2)..Len(text) :
        /\ MatchAt(text, i, <<"<", "|">>)
        /\ MatchAt(text, j, <<"|", ">">>)
        /\ \A k \in (i + 2)..(j - 1) : text[k] # "\n"

\* re.search(r'###\s*<word>', text, re.IGNORECASE)
MatchesHeading(text, word) ==
    \E i \in 1..Len(text) : \E j \in (i + 3)..Len(text) :
        /\ MatchAt(text, i, <<"#", "#", "#">>)
        /\ \A k \in (i + 3)..(j - 1) : text[k] \in Whitespace
        /\ MatchAt(Lower(text), j, word)

MatchesInjectionPattern(text) ==
    \/ \E p \in INJECTION_LITERALS : Contains(Lower(text), p)
    \/ MatchesDelimiterToken(text)
    \/ \E w \in INJECTION_HEADINGS : MatchesHeading(text, w)

\* A fault of _pattern_check: the text is compared as typed, without lower().
ContainsBlockedPatternAsTyped(text) ==
    \E i \in 1..Len(blocked_patterns) : Contains(text, blocked_patterns[i])

ContainsBlockedPattern(text) ==
    \E i \in 1..Len(blocked_patterns) : Contains(Lower(text), blocked_patterns[i])

REASON_BLOCKED_PATTERN == <<"Detected blocked pattern: prompt manipulation attempt">>
REASON_INJECTION == <<"Detected potential prompt injection pattern">>
REASON_TOO_LONG == <<"Input exceeds maximum length of ", "MAX_INPUT_LENGTH", " characters">>
REASON_PARTIAL == <<"Security analysis partially completed">>

\* Optional[str] = None
None == <<"<None>">>

\* SecurityAgent._pattern_check: (is_blocked, reason)
_pattern_check(text) ==
    IF ContainsBlockedPattern(text)
    THEN [is_blocked |-> TRUE, reason |-> REASON_BLOCKED_PATTERN]
    ELSE IF MatchesInjectionPattern(text)
    THEN [is_blocked |-> TRUE, reason |-> REASON_INJECTION]
    ELSE [is_blocked |-> FALSE, reason |-> <<>>]

\* SecurityStatus
SAFE == "safe"
BLOCKED == "blocked"
WARNING == "warning"

\* SecurityAnalysisResult(...)
SecurityAnalysisResult(is_safe, status, reason, risk_score) ==
    [is_safe |-> is_safe, status |-> status, reason |-> reason, risk_score |-> risk_score]

\* The verdicts analyze returns without a model call: the pattern block, then
\* the length block; NoVerdict when the model is to be asked.
NoVerdict == [is_safe |-> FALSE, status |-> "none", reason |-> None, risk_score |-> 0]

PatternVerdict(reason) == SecurityAnalysisResult(FALSE, BLOCKED, reason, RISK_PATTERN)

LengthVerdict == SecurityAnalysisResult(FALSE, BLOCKED, REASON_TOO_LONG, RISK_LENGTH)

\* A fault of the except clause: it blocks where the code allows with a warning.
FailClosedVerdict == SecurityAnalysisResult(FALSE, BLOCKED, REASON_PARTIAL, RISK_FAIL_OPEN)

\* except Exception: allow with warning
FailOpenVerdict == SecurityAnalysisResult(TRUE, WARNING, REASON_PARTIAL, RISK_FAIL_OPEN)

\* An analyze that tests the length before the patterns.
LocalPathLengthFirst(text) ==
    IF Len(text) > MAX_INPUT_LENGTH THEN "length"
    ELSE IF _pattern_check(text).is_blocked THEN "pattern"
    ELSE "model"

\* Which return statement of analyze a text reaches before any model call.
LocalPath(text) ==
    IF _pattern_check(text).is_blocked THEN "pattern"
    ELSE IF Len(text) > MAX_INPUT_LENGTH THEN "length"
    ELSE "model"

LocalVerdict(text) ==
    IF LocalPath(text) = "pattern" THEN PatternVerdict(_pattern_check(text).reason)
    ELSE IF LocalPath(text) = "length" THEN LengthVerdict
    ELSE NoVerdict

\* The parsed JSON object of the security reply.  is_safe is the JSON value:
\* true, false, absent (default True), null, a string pydantic reads as False
\* ("false", "no", "0", ...), or a string it rejects.  risk_kind tells whether
\* risk_score is a number, absent (default 0) or something float() rejects.
IS_SAFE_VALUES == {"true", "false", "absent", "null", "str_false", "str_other"}

\* bool(value) of the Python object
Truthy(v) == v \in {"true", "absent", "str_false", "str_other"}

RISK_KINDS == {"number", "absent", "invalid"}

\* A JSON value that is not a string where a str field is declared.
NON_STRING == <<"<non-string>">>

\* is_safe = response.get("is_safe", True); risk_score = float(response.get("risk_score", 0))
\* and the threshold rule; raises (Raised) where float() or the pydantic
\* validation of SecurityAnalysisResult raises.
Raised == [is_safe |-> FALSE, status |-> "raised", reason |-> None, risk_score |-> 0]

\* A fault of the threshold rule: the warning threshold is compared with >=.
ThresholdStatusInclusive(is_safe, risk_score) ==
    IF ~Truthy(is_safe) \/ risk_score > RISK_BLOCK_THRESHOLD THEN BLOCKED
    ELSE IF risk_score >= RISK_WARN_THRESHOLD THEN WARNING
    ELSE SAFE

ThresholdStatus(is_safe, risk_score) ==
    IF ~Truthy(is_safe) \/ risk_score > RISK_BLOCK_THRESHOLD THEN BLOCKED
    ELSE IF risk_score > RISK_WARN_THRESHOLD THEN WARNING
    ELSE SAFE

\* if threat_type: reason = f"{threat_type}: {reason}"
ReasonWithThreat(threat_type, reason) ==
    IF threat_type # <<>> THEN threat_type \o <<": ">> \o reason ELSE reason

ModelVerdict(r) ==
    LET risk_score == IF r.risk_kind = "absent" THEN RISK_DEFAULT ELSE r.risk_score
        status == ThresholdStatus(r.is_safe, risk_score)
        \* is_safe after "is_safe = False" in the BLOCKED branch, then as
        \* pydantic reads it into the bool field
        blocked == status = BLOCKED
        accepted == blocked \/ r.is_safe \in {"true", "absent", "str_false"}
        is_safe == ~blocked /\ r.is_safe \in {"true", "absent"}
        \* reason if not is_safe else None, on the Python value
        reason == IF blocked THEN ReasonWithThreat(r.threat_type, r.reason) ELSE None
    IN IF r.risk_kind = "invalid" THEN Raised
       ELSE IF risk_score < RISK_MIN \/ risk_score > RISK_MAX THEN Raised
       ELSE IF ~accepted THEN Raised
       ELSE IF blocked /\ r.threat_type = <<>> /\ r.reason = NON_STRING THEN Raised
       ELSE SecurityAnalysisResult(is_safe, status, reason, risk_score)

\* The try/except of analyze around the model call: reply.ok is whether
\* json_completion returned a JSON object.
AnalyzeReply(reply) ==
    IF ~reply.ok THEN FailOpenVerdict
    ELSE IF ModelVerdict(reply.json) = Raised THEN FailOpenVerdict
    ELSE ModelVerdict(reply.json)

\* re.sub(r'<[^>]+>', '', text)
\* The first match of <[^>]+> in s: a "<", at least one character that is
\* not ">", and the next ">"; from = 0 when there is none.
TagMatch(s) ==
    LET starts == {i \in 1..(Len(s) - 2) :
                      s[i] = "<" /\ s[i + 1] # ">" /\ \E j \in (i + 2)..Len(s) : s[j] = ">"}
        from == IF starts = {} THEN 0 ELSE Min(starts)
    IN [from |-> from,
        to |-> IF starts = {} THEN 0 ELSE Min({j \in (from + 2)..Len(s) : s[j] = ">"})]

RECURSIVE RemoveTags(_)
RemoveTags(s) ==
    IF TagMatch(s).from = 0 THEN s
    ELSE SubSeq(s, 1, TagMatch(s).from - 1) \o RemoveTags(Drop(s, TagMatch(s).to))

\* re.sub(r'<script[^>]*>.*?</script>', '', text, flags=re.DOTALL | re.IGNORECASE)
SCRIPT_OPEN == <<"<", "s", "c", "r", "i", "p", "t">>
SCRIPT_CLOSE == <<"<", "/", "s", "c", "r", "i", "p", "t", ">">>

\* Where the match of the pattern that starts at offset i ends, 0 when none
\* starts there: "<script", the next ">", and the first "</script>" after it.
ScriptMatchEnd(s, i) ==
    LET low == Lower(s)
        gts == {j \in (i + Len(SCRIPT_OPEN))..Len(s) : s[j] = ">"}
        closes == IF gts = {} THEN {}
                  ELSE {k \in (Min(gts) + 1)..Len(s) : MatchAt(low, k, SCRIPT_CLOSE)}
    IN IF MatchAt(low, i, SCRIPT_OPEN) /\ closes # {}
       THEN Min(closes) + Len(SCRIPT_CLOSE) - 1
       ELSE 0

\* The first match in s; from = 0 when there is none.
ScriptMatch(s) ==
    LET starts == {i \in 1..Len(s) : ScriptMatchEnd(s, i) > 0}
        from == IF starts = {} THEN 0 ELSE Min(starts)
    IN [from |-> from, to |-> IF starts = {} THEN 0 ELSE ScriptMatchEnd(s, from)]

RECURSIVE RemoveScripts(_)
RemoveScripts(s) ==
    IF ScriptMatch(s).from = 0 THEN s
    ELSE SubSeq(s, 1, ScriptMatch(s).from - 1) \o RemoveScripts(Drop(s, ScriptMatch(s).to))

\* text.replace('\x00', '')
RemoveNul(s) == SelectSeq(s, LAMBDA c : c # NUL)

\* A sanitize_input that does not limit the length.
TruncateNothing(s) == s

\* if len(text) > MAX_INPUT_LENGTH: text = text[:MAX_INPUT_LENGTH]
Truncate(s) == IF Len(s) > MAX_INPUT_LENGTH THEN Take(s, MAX_INPUT_LENGTH) ELSE s

\* SecurityAgent.sanitize_input
sanitize_input(text) == Strip(Truncate(RemoveNul(RemoveScripts(RemoveTags(text)))))

\* ------------------------------------------------------------------------
\* Language Detector (LanguageAgent)
\* ------------------------------------------------------------------------

EN == <<"e", "n">>
UNKNOWN == <<"u", "n", "k", "n", "o", "w", "n">>

\* LanguageAgent.LANGUAGE_NAMES
LANGUAGE_NAMES ==
    <<"e", "n">> :> "English" @@ <<"e", "s">> :> "Spanish" @@ <<"f", "r">> :> "French" @@
    <<"d", "e">> :> "German" @@ <<"i", "t">> :> "Italian" @@ <<"p", "t">> :> "Portuguese" @@
    <<"r", "u">> :> "Russian" @@ <<"z", "h">> :> "Chinese" @@ <<"j", "a">> :> "Japanese" @@
    <<"k", "o">> :> "Korean" @@ <<"a", "r">> :> "Arabic" @@ <<"h", "i">> :> "Hindi" @@
    <<"b", "n">> :> "Bengali" @@ <<"t", "r">> :> "Turkish" @@ <<"n", "l">> :> "Dutch" @@
    <<"p", "l">> :> "Polish" @@ <<"s", "v">> :> "Swedish" @@ <<"n", "o">> :> "Norwegian" @@
    <<"d", "a">> :> "Danish" @@ <<"f", "i">> :> "Finnish" @@ <<"e", "l">> :> "Greek" @@
    <<"h", "e">> :> "Hebrew" @@ <<"t", "h">> :> "Thai" @@ <<"v", "i">> :> "Vietnamese" @@
    <<"i", "d">> :> "Indonesian" @@ <<"m", "s">> :> "Malay" @@ <<"t", "l">> :> "Tagalog" @@
    <<"u", "k">> :> "Ukrainian" @@ <<"c", "s">> :> "Czech" @@ <<"r", "o">> :> "Romanian" @@
    <<"h", "u">> :> "Hungarian"

\* LanguageDetectionResult(...)
LanguageDetectionResult(language_code, language_name, confidence) ==
    [language_code |-> language_code, language_name |-> language_name,
     confidence |-> confidence]

\* A detect whose except branch answers English.
EnglishOnFailure == LanguageDetectionResult(EN, "English", 0)

\* The result of the except branch of detect.
UnknownLanguage == LanguageDetectionResult(UNKNOWN, "Unknown", 0)

\* No detection has been made.
NoLanguage == LanguageDetectionResult(<<>>, "", 0)

\* min(max(confidence, 0), 1)
Clamp(confidence) ==
    IF confidence < CONFIDENCE_MIN THEN CONFIDENCE_MIN
    ELSE IF confidence > CONFIDENCE_MAX THEN CONFIDENCE_MAX
    ELSE confidence

\* sample_text = text[:1000] if len(text) > 1000 else text
DetectSampleOf(text) == IF Len(text) > DETECT_SAMPLE THEN Take(text, DETECT_SAMPLE) ELSE text

\* The parsed JSON object of the detection reply: language_code is a string,
\* absent (default "unknown") or not a string (.lower() raises); confidence a
\* number, absent (default 0.8) or something float() rejects; language_name a
\* string, absent (default "Unknown") or not a string (pydantic rejects it).
DetectedLanguage(r) ==
    LET language_code == IF r.code_kind = "absent" THEN UNKNOWN ELSE Lower(r.language_code)
        named == IF r.name_kind = "absent" THEN "Unknown" ELSE r.language_name
        language_name == IF language_code \in DOMAIN LANGUAGE_NAMES
                         THEN LANGUAGE_NAMES[language_code] ELSE named
        confidence == IF r.conf_kind = "absent" THEN CONFIDENCE_DEFAULT ELSE r.confidence
    IN IF r.code_kind = "invalid" \/ r.conf_kind = "invalid" THEN UnknownLanguage
       ELSE IF r.name_kind = "invalid" /\ language_code \notin DOMAIN LANGUAGE_NAMES
       THEN UnknownLanguage
       ELSE LanguageDetectionResult(language_code, language_name, Clamp(confidence))

\* The try/except of detect around the model call.
DetectReply(reply) == IF ~reply.ok THEN UnknownLanguage ELSE DetectedLanguage(reply.json)

\* LanguageAgent.is_english
is_english(result) == Lower(result.language_code) = EN

\* ------------------------------------------------------------------------
\* Translator (TranslationAgent)
\* ------------------------------------------------------------------------

\* A fault of translate: the name of the language is compared, not its code.
TranslatePassThroughByName(source_language) == source_language.language_name = "en"

\* The first branch of translate: source_language.language_code == 'en'.
TranslateIsPassThrough(source_language) == source_language.language_code = EN

\* The chunks translate sends, one call each: the whole text through
\* _translate_single, or the chunks of _translate_chunked.
TranslateMode(text) == IF Len(text) > MAX_CHUNK_SIZE THEN "chunked" ELSE "single"

TranslateUnits(text) ==
    IF TranslateMode(text) = "chunked" THEN _split_into_chunks(text) ELSE <<text>>

\* translated.strip() in _translate_single
TranslatedOf(content) == Strip(content)

\* A fault of the loop: each translation is put in front of the earlier ones.
CollectTranslatedInFront(translated_chunks, translated) == <<translated>> \o translated_chunks

\* translated_chunks.append(translated)
CollectTranslated(translated_chunks, translated) == Append(translated_chunks, translated)

\* "\n\n".join(translated_chunks); the single path returns its one element.
AssembleTranslation(translated_chunks) == Join(translated_chunks, PARAGRAPH_SEP)

\* A fault of the loop: a failed call is passed over and the loop goes on.
AfterTranslateReplyLenient(ok, i, n) == IF i < n THEN "next" ELSE "return"

\* After a reply to the call of chunk i of n: the loop goes on to the next
\* chunk, returns, or (the call raised) the exception leaves translate.
AfterTranslateReply(ok, i, n) ==
    IF ~ok THEN "raise" ELSE IF i < n THEN "next" ELSE "return"

\* ------------------------------------------------------------------------
\* Document Extractor (PDFProcessor)
\* ------------------------------------------------------------------------

PDF_SUFFIX == <<".", "p", "d", "f">>

\* PDFProcessor.validate_file: (is_valid, error_message)
validate_file(size, filename) ==
    IF ~EndsWith(Lower(filename), PDF_SUFFIX)
    THEN [is_valid |-> FALSE, error_message |-> <<"Only PDF files are allowed">>]
    ELSE IF size > MAX_FILE_SIZE
    THEN [is_valid |-> FALSE,
          error_message |-> <<"File size exceeds maximum limit of ",
                              ToString(MAX_FILE_SIZE_MB), "MB">>]
    ELSE IF size = 0
    THEN [is_valid |-> FALSE, error_message |-> <<"Uploaded file is empty">>]
    ELSE [is_valid |-> TRUE, error_message |-> None]

\* The pages whose text is kept: extraction did not raise and keep(text) holds.
RECURSIVE KeptPages(_, _)
KeptPages(pages, strip) ==
    IF pages = <<>> THEN <<>>
    ELSE IF Head(pages).ok /\ (IF strip THEN Strip(Head(pages).text) ELSE Head(pages).text) # <<>>
         THEN <<Head(pages).text>> \o KeptPages(Tail(pages), strip)
         ELSE KeptPages(Tail(pages), strip)

\* PDFProcessor.extract_text_with_pypdf2, when PdfReader accepts the file
extract_text_with_pypdf2(file) == Join(KeptPages(file.pages, FALSE), PARAGRAPH_SEP)

\* PDFProcessor.extract_text_with_ocr, when convert_from_bytes succeeds
extract_text_with_ocr(file) == Join(KeptPages(file.ocr_pages, TRUE), PARAGRAPH_SEP)

\* The loop over lines of clean_text: strip each line and drop an empty line
\* that follows an empty line or starts the text.
RECURSIVE CleanLines(_, _)
CleanLines(lines, cleaned_lines) ==
    IF lines = <<>> THEN cleaned_lines
    ELSE LET line == Strip(Head(lines))
         IN IF line # <<>> \/ (cleaned_lines # <<>> /\ cleaned_lines[Len(cleaned_lines)] # <<>>)
            THEN CleanLines(Tail(lines), Append(cleaned_lines, line))
            ELSE CleanLines(Tail(lines), cleaned_lines)

\* s.replace(old, new): non-overlapping occurrences, left to right
RECURSIVE Replace(_, _, _)
Replace(s, old, new) ==
    IF Find(s, old) = 0 THEN s
    ELSE SubSeq(s, 1, Find(s, old) - 1) \o new
         \o Replace(Drop(s, Find(s, old) + Len(old) - 1), old, new)

\* while old in s: s = s.replace(old, new)
RECURSIVE ReplaceAll(_, _, _)
ReplaceAll(s, old, new) ==
    IF Contains(s, old) THEN ReplaceAll(Replace(s, old, new), old, new) ELSE s

\* PDFProcessor.clean_text
clean_text(text) ==
    Strip(ReplaceAll(ReplaceAll(Join(CleanLines(Split(text, <<"\n">>), <<>>), <<"\n">>),
                                <<" ", " ">>, <<" ">>),
                     <<"\n", "\n", "\n">>, <<"\n", "\n">>))

ERROR_OCR_UNAVAILABLE ==
    <<"This PDF appears to be scanned/image-based. ",
      "OCR support is not available. Please install Tesseract OCR.">>
ERROR_NO_TEXT ==
    <<"No text could be extracted from the PDF (tried both text extraction and OCR)">>
ERROR_OCR_FAILED(internal) == <<"OCR processing failed: ">> \o internal
ERROR_EXTRACT_FAILED(internal) == <<"Failed to extract text from PDF: ">> \o internal

\* A test that accepts a direct text of exactly the minimum length.
DirectTextUsableFromMinimum(cleaned_text) ==
    Strip(cleaned_text) # <<>> /\ Len(Strip(cleaned_text)) >= MIN_DIRECT_LENGTH

\* if cleaned_text.strip() and len(cleaned_text.strip()) > 50
DirectTextUsable(cleaned_text) ==
    Strip(cleaned_text) # <<>> /\ Len(Strip(cleaned_text)) > MIN_DIRECT_LENGTH

\* An extract_text that returns whatever OCR read, without the test
\* `if cleaned_ocr_text.strip()`.
extract_text_unchecked(file, ocr_available) ==
    LET cleaned_text == clean_text(extract_text_with_pypdf2(file))
        cleaned_ocr_text == clean_text(extract_text_with_ocr(file))
    IN IF ~file.readable
       THEN [ok |-> FALSE, used_ocr |-> FALSE, text |-> <<>>,
             error |-> ERROR_EXTRACT_FAILED(file.reader_error)]
       ELSE IF DirectTextUsable(cleaned_text)
       THEN [ok |-> TRUE, used_ocr |-> FALSE, text |-> cleaned_text, error |-> <<>>]
       ELSE IF ~ocr_available
       THEN [ok |-> FALSE, used_ocr |-> FALSE, text |-> <<>>, error |-> ERROR_OCR_UNAVAILABLE]
       ELSE IF ~file.ocr_converts
       THEN [ok |-> FALSE, used_ocr |-> TRUE, text |-> <<>>,
             error |-> ERROR_OCR_FAILED(file.ocr_error)]
       ELSE [ok |-> TRUE, used_ocr |-> TRUE, text |-> cleaned_ocr_text, error |-> <<>>]

\* PDFProcessor.extract_text: the text returned, or the ValueError raised.
extract_text(file, ocr_available) ==
    LET cleaned_text == clean_text(extract_text_with_pypdf2(file))
        cleaned_ocr_text == clean_text(extract_text_with_ocr(file))
    IN IF ~file.readable
       THEN [ok |-> FALSE, used_ocr |-> FALSE, text |-> <<>>,
             error |-> ERROR_EXTRACT_FAILED(file.reader_error)]
       ELSE IF DirectTextUsable(cleaned_text)
       THEN [ok |-> TRUE, used_ocr |-> FALSE, text |-> cleaned_text, error |-> <<>>]
       ELSE IF ~ocr_available
       THEN [ok |-> FALSE, used_ocr |-> FALSE, text |-> <<>>, error |-> ERROR_OCR_UNAVAILABLE]
       ELSE IF ~file.ocr_converts
       THEN [ok |-> FALSE, used_ocr |-> TRUE, text |-> <<>>,
             error |-> ERROR_OCR_FAILED(file.ocr_error)]
       ELSE IF Strip(cleaned_ocr_text) # <<>>
       THEN [ok |-> TRUE, used_ocr |-> TRUE, text |-> cleaned_ocr_text, error |-> <<>>]
       ELSE [ok |-> FALSE, used_ocr |-> TRUE, text |-> <<>>, error |-> ERROR_NO_TEXT]

\* ------------------------------------------------------------------------
\* Pipeline Orchestrator (app.py): responses and branching
\* ------------------------------------------------------------------------

ELLIPSIS == <<".", ".", ".">>

\* text[:n] + "..." if len(text) > n else text
Preview(text, n) == IF Len(text) > n THEN Take(text, n) \o ELLIPSIS ELSE text

\* f"{reason}" of an Optional[str]
Format(reason) == IF reason = None THEN <<"None">> ELSE reason

\* TranslationResponse(...), returned with status 200
TranslationResponse(success, original_text, detected_language, confidence, translated_text, security_status, message) ==
    [status_code |-> 200, detail |-> <<>>,
     success |-> success, original_text |-> original_text,
     detected_language |-> detected_language,
     detected_language_confidence |-> confidence,
     translated_text |-> translated_text,
     security_status |-> security_status, message |-> message]

\* raise HTTPException(status_code, detail)
HTTPException(status_code, detail) ==
    [status_code |-> status_code, detail |-> detail,
     success |-> FALSE, original_text |-> <<>>, detected_language |-> "",
     detected_language_confidence |-> 0, translated_text |-> <<>>,
     security_status |-> "", message |-> <<>>]

\* No response has been sent yet.
NoResponse == HTTPException(0, <<>>)

DETAIL_EMPTY_TEXT == <<"Text cannot be empty">>
DETAIL_TEXT_ERROR == <<"An error occurred during translation">>
DETAIL_PDF_ERROR == <<"An error occurred processing the PDF">>

\* The length of the preview of the endpoint: text[:100] / extracted_text[:200].
PreviewLength(ep) == IF ep = "text" THEN TEXT_PREVIEW ELSE PDF_PREVIEW

\* A fault of the blocked return: original_text carries the text uncut.
BlockedResponseUncut(ep, original, security_result) ==
    TranslationResponse(FALSE, original, "N/A", 0, <<>>, security_result.status,
                        <<"Security Alert: ">> \o Format(security_result.reason))

\* if not security_result.is_safe: return TranslationResponse(success=False, ...)
BlockedResponse(ep, original, security_result) ==
    TranslationResponse(FALSE, Preview(original, PreviewLength(ep)), "N/A", 0, <<>>,
                        security_result.status,
                        <<"Security Alert: ">> \o Format(security_result.reason))

\* A fault of the handler: the test of is_safe is inverted.
AfterScreeningInverted(security_result) ==
    IF security_result.is_safe THEN "blocked" ELSE "detect"

\* The branch after analyze: the early return or the detection step.
AfterScreening(security_result) == IF ~security_result.is_safe THEN "blocked" ELSE "detect"

\* A fault of the handler: the English branch is missing.
AfterDetectionAlwaysTranslate(language_result) == "translate"

\* The branch after detect: language_agent.is_english(language_result).
AfterDetection(language_result) ==
    IF is_english(language_result) THEN "passthrough" ELSE "translate"

PassThroughMessage(ep, original) ==
    IF ep = "text" THEN <<"Text is already in English. No translation needed.">>
    ELSE <<"PDF text is already in English. Extracted ", ToString(Len(original)),
           " characters.">>

TranslatedMessage(ep, language_result) ==
    IF ep = "text"
    THEN <<"Successfully translated from ", language_result.language_name, " to English">>
    ELSE <<"Successfully translated PDF from ", language_result.language_name, " to English">>

\* The final return TranslationResponse(success=True, ...) of both endpoints.
SuccessResponse(original, language_result, translated_text, message) ==
    TranslationResponse(TRUE, original, language_result.language_name,
                        language_result.confidence, translated_text, SAFE, message)

\* except Exception: raise HTTPException(status_code=500, detail=...)
InternalError(ep) ==
    HTTPException(500, IF ep = "text" THEN DETAIL_TEXT_ERROR ELSE DETAIL_PDF_ERROR)

\* A backend call: which agent made it and the text it put in the prompt.
Call(kind, text) == [kind |-> kind, text |-> text]

\* user_prompt of analyze carries text[:5000]
SecurityCall(text) == Call("security", Take(text, SECURITY_SAMPLE))

DetectCall(text) == Call("detect", DetectSampleOf(text))

TranslateCall(chunk) == Call("translate", chunk)

\* ------------------------------------------------------------------------
\* The environment: request bodies, uploads and backend replies
\* ------------------------------------------------------------------------

\* Exceptions json_completion / simple_completion raise, and the AttributeError
\* of response.get on a JSON value that is not an object.
BACKEND_ERRORS == {
    "Mistral API error: 500",
    "Request to Mistral API timed out",
    "Error communicating with Mistral AI: connection refused",
    "Invalid response format from Mistral AI",
    "Invalid JSON response from Mistral AI",
    "AttributeError: 'list' object has no attribute 'get'" }

\* risk_score values around the thresholds and the bounds of the field.
RiskValues == {-1, 0, 40, 41, 70, 71, 100, 101}

SecurityJsons ==
    [is_safe : IS_SAFE_VALUES, risk_kind : {"number"}, risk_score : RiskValues,
     threat_type : {<<>>}, reason : {<<"R">>}]
    \cup
    [is_safe : IS_SAFE_VALUES, risk_kind : {"absent", "invalid"}, risk_score : {0},
     threat_type : {<<>>}, reason : {<<"R">>}]
    \cup
    [is_safe : {"true", "false"}, risk_kind : {"number"}, risk_score : {0, 71},
     threat_type : {<<>>, <<"T">>}, reason : {<<>>, NON_STRING}]

NoJson == [none |-> TRUE]

FailedReplies == {[ok |-> FALSE, error |-> e, json |-> NoJson] : e \in BACKEND_ERRORS}

SecurityReplies == FailedReplies \cup {[ok |-> TRUE, error |-> "", json |-> j] : j \in SecurityJsons}

DetectJson(code_kind, language_code, name_kind, language_name, conf_kind, confidence) ==
    [code_kind |-> code_kind, language_code |-> language_code,
     name_kind |-> name_kind, language_name |-> language_name,
     conf_kind |-> conf_kind, confidence |-> confidence]

DetectJsons == {
    DetectJson("string", <<"e", "n">>, "string", "English", "number", 95),
    DetectJson("string", <<"E", "N">>, "string", "Anglais", "number", 150),
    DetectJson("string", <<"f", "r">>, "string", "Francais", "number", 90),
    DetectJson("string", <<"F", "r">>, "invalid", "", "absent", 0),
    DetectJson("string", <<"x", "x">>, "string", "Klingon", "number", -20),
    DetectJson("string", <<"x", "x">>, "invalid", "", "number", 50),
    DetectJson("absent", <<>>, "absent", "", "number", 50),
    DetectJson("invalid", <<>>, "string", "French", "number", 50),
    DetectJson("string", <<"f", "r">>, "string", "French", "invalid", 0) }

DetectReplies == FailedReplies \cup {[ok |-> TRUE, error |-> "", json |-> j] : j \in DetectJsons}

\* What simple_completion returns for a chunk: a text that carries the chunk,
\* or one with surrounding whitespace; or it raises.
TranslateReplies(chunk) ==
    {[ok |-> FALSE, error |-> e, content |-> <<>>] : e \in BACKEND_ERRORS}
    \cup {[ok |-> TRUE, error |-> "", content |-> <<"[">> \o chunk \o <<"]">>],
          [ok |-> TRUE, error |-> "", content |-> <<" ", "T", "\n">>]}

\* Request bodies of the text endpoint.  TranslationRequest admits 1 to
\* MAX_INPUT_LENGTH characters; shorter or longer bodies never reach the handler.
BodyAlphabet == {"a", " ", "<", ">"}

SmallBodies == UNION {[1..n -> BodyAlphabet] : n \in 1..MaxBody}

\* A word with every other letter in upper case.
Alternate(s) == [i \in 1..Len(s) |-> IF i % 2 = 1 THEN UpperChar(s[i]) ELSE s[i]]

PhraseVariants ==
    UNION {{BLOCKED_PATTERNS[i], Upper(BLOCKED_PATTERNS[i]), Alternate(BLOCKED_PATTERNS[i])} :
           i \in 1..Len(BLOCKED_PATTERNS)}

LeftPads == {<<>>, <<"a", " ">>, Rep("a", TEXT_PREVIEW - 10)}
RightPads == {<<>>, <<" ", "a">>}

PhraseBodies == {l \o v \o r : l \in LeftPads, v \in PhraseVariants, r \in RightPads}

\* Bodies that match an injection pattern, and bodies longer than a chunk.
INST_A == <<"[", "I", "N", "S", "T", "]", " ", "a">>
HEADING == <<"#", "#", "#", " ", "S", "y", "s", "t", "e", "m">>
THREE_PARAGRAPHS == <<"a", "b", "\n", "\n", "c", "d", "\n", "\n", "e", "f">>
THREE_SENTENCES == <<"a", "b", ".", " ", "c", "d", ".", " ", "e", "f", "g", "h", "i">>
PARAGRAPH_THEN_SENTENCES == <<"a", "\n", "\n", "b", ".", " ", "c", "d", "e", "f">>

InjectionBodies == {
    INST_A,
    HEADING }

LongBodies == {
    THREE_PARAGRAPHS,
    THREE_SENTENCES,
    PARAGRAPH_THEN_SENTENCES,
    Rep("a", MAX_INPUT_LENGTH) }

NulBodies == {<<NUL>>, <<"a", NUL, "b">>, <<"<", NUL, ">", "a">>}

Bodies == SmallBodies \cup NulBodies \cup PhraseBodies \cup InjectionBodies \cup LongBodies

\* Uploads of the PDF endpoint: the file name, the byte length, whether
\* PdfReader accepts the bytes, what page.extract_text() gives per page,
\* whether convert_from_bytes renders the pages and what OCR reads per page.
Page(text) == [ok |-> TRUE, text |-> text]
PageError == [ok |-> FALSE, text |-> <<>>]

\* What page.extract_text() gives, page by page.
DirectPageLists == {
    <<>>,
    <<PageError>>,
    <<Page(<<>>)>>,
    <<Page(<<"a", "b">>)>>,
    <<Page(Rep("a", MIN_DIRECT_LENGTH - 1))>>,
    <<Page(Rep("a", MIN_DIRECT_LENGTH))>>,
    <<Page(Rep("a", MIN_DIRECT_LENGTH + 1))>>,
    <<Page(<<" ">> \o Rep("a", MIN_DIRECT_LENGTH - 1) \o <<" ", " ", "b", "\n">>)>>,
    <<PageError, Page(Rep("a", MIN_DIRECT_LENGTH + 1)), Page(<<>>)>>,
    <<Page(Rep("a", MIN_DIRECT_LENGTH - 20)), Page(Rep("b", MIN_DIRECT_LENGTH - 20))>>,
    <<Page(Rep("a", PDF_PREVIEW - 10) \o BLOCKED_PATTERNS[1])>>,
    <<Page(Upper(BLOCKED_PATTERNS[5]) \o Rep("a", MIN_DIRECT_LENGTH))>>,
    <<Page(Rep("a", MAX_INPUT_LENGTH + 10))>> }

\* What OCR reads from the rendered pages, page by page.
OcrPageLists == {
    <<>>,
    <<PageError>>,
    <<Page(<<" ">>)>>,
    <<Page(<<"a", "b">>)>>,
    <<Page(THREE_PARAGRAPHS)>>,
    <<Page(<<"a", "b">>), PageError, Page(<<" ", "\n">>), Page(<<"c", "d">>)>>,
    <<Page(BLOCKED_PATTERNS[6])>> }

File(filename, size, readable, pages, ocr_converts, ocr_pages) ==
    [filename |-> filename, size |-> size, readable |-> readable,
     reader_error |-> <<"PdfReadError: EOF marker not found">>,
     pages |-> pages, ocr_converts |-> ocr_converts,
     ocr_error |-> <<"Unable to get page count. Is poppler installed and in PATH?">>,
     ocr_pages |-> ocr_pages]

NoFile == File(<<>>, 0, FALSE, <<>>, FALSE, <<>>)

FileNames == {
    <<"a">> \o PDF_SUFFIX,
    <<"a">> \o Upper(PDF_SUFFIX),
    <<"a", ".", "t", "x", "t">> }

EdgeFiles ==
    {File(n, z, TRUE, <<Page(<<"a", "b">>)>>, FALSE, <<>>) :
        n \in FileNames, z \in {0, 1, MAX_FILE_SIZE, MAX_FILE_SIZE + 1}}

ReadableFiles ==
    {File(<<"a">> \o PDF_SUFFIX, 1, TRUE, ps, TRUE, os) :
        ps \in DirectPageLists, os \in OcrPageLists}
    \cup
    {File(<<"a">> \o PDF_SUFFIX, 1, TRUE, ps, FALSE, <<>>) :
        ps \in DirectPageLists}

Files == EdgeFiles \cup ReadableFiles
           \cup {File(<<"a">> \o PDF_SUFFIX, 1, FALSE, <<>>, FALSE, <<>>)}

\* Texts handed to _split_into_chunks in ChunkerSpec.
ChunkAlphabet == {"a", ".", " ", "\n"}

ChunkTexts == UNION {[1..n -> ChunkAlphabet] : n \in 0..MaxLen}

\* ------------------------------------------------------------------------
\* State
\* ------------------------------------------------------------------------

VARIABLES
    pc,                 \* where the request handler stands
    endpoint,           \* "text" (translate_text) or "pdf" (translate_pdf)
    body,               \* body.text of the text request
    file,               \* the upload of the PDF request
    OCR_AVAILABLE,      \* pdf_processor.OCR_AVAILABLE, set once at import
    text,               \* text of translate_text, extracted_text of translate_pdf
    sanitized_text,
    security_result,
    analyze_return,     \* which return of analyze gave security_result
    language_result,
    translate_mode,     \* "single" or "chunked", "" before translate
    chunks,             \* what translate sends, call by call
    translated_chunks,
    response,
    calls,              \* the backend calls made, in order
    stages,             \* the agent methods the handler has invoked, in order
    arg, ret, upc       \* a direct call of _split_into_chunks(arg)

vars == <<pc, endpoint, body, file, OCR_AVAILABLE, text, sanitized_text, security_result,
          analyze_return, language_result, translate_mode, chunks, translated_chunks,
          response, calls, stages, arg, ret, upc>>

request == <<endpoint, body, OCR_AVAILABLE>>
harness == <<arg, ret, upc>>

\* The request state before the handler has run.
Fresh ==
    /\ text = <<>>
    /\ sanitized_text = <<>>
    /\ security_result = NoVerdict
    /\ analyze_return = ""
    /\ language_result = NoLanguage
    /\ translate_mode = ""
    /\ chunks = <<>>
    /\ translated_chunks = <<>>
    /\ response = NoResponse
    /\ calls = <<>>
    /\ stages = <<>>

Init ==
    /\ pc = "start"
    /\ endpoint \in {"text", "pdf"}
    /\ OCR_AVAILABLE \in BOOLEAN
    /\ IF endpoint = "text"
       THEN body \in Bodies /\ file = NoFile
       ELSE body = <<>> /\ file \in Files
    /\ Fresh
    /\ arg = <<>> /\ ret = <<>> /\ upc = "idle"

\* ------------------------------------------------------------------------
\* translate_text and translate_pdf, one action per step between awaits
\* ------------------------------------------------------------------------

Respond(r) == response' = r /\ pc' = "done"

\* translate_text: text = body.text.strip(); if not text: raise HTTPException(400)
TextReceive ==
    /\ pc = "start" /\ endpoint = "text"
    /\ text' = Strip(body)
    /\ IF Strip(body) = <<>>
       THEN Respond(HTTPException(400, DETAIL_EMPTY_TEXT))
       ELSE pc' = "sanitize" /\ UNCHANGED response
    /\ UNCHANGED <<request, file, sanitized_text, security_result, analyze_return,
                   language_result, translate_mode, chunks, translated_chunks, calls,
                   stages, harness>>

\* translate_pdf: file.read(), validate_file, then extract_text; a ValueError
\* of extract_text becomes HTTPException(400, detail=str(e)).
PdfReceive ==
    /\ pc = "start" /\ endpoint = "pdf"
    /\ LET valid == validate_file(file.size, file.filename)
           extracted == extract_text(file, OCR_AVAILABLE)
       IN IF ~valid.is_valid
          THEN Respond(HTTPException(400, valid.error_message)) /\ UNCHANGED <<text, stages>>
          ELSE /\ stages' = Append(stages, "extract")
               /\ IF ~extracted.ok
                  THEN Respond(HTTPException(400, extracted.error)) /\ UNCHANGED text
                  ELSE text' = extracted.text /\ pc' = "sanitize" /\ UNCHANGED response
    /\ file' = NoFile
    /\ UNCHANGED <<request, sanitized_text, security_result, analyze_return,
                   language_result, translate_mode, chunks, translated_chunks, calls,
                   harness>>

\* sanitized_text = security_agent.sanitize_input(text)
Sanitize ==
    /\ pc = "sanitize"
    /\ sanitized_text' = sanitize_input(text)
    /\ stages' = Append(stages, "sanitize")
    /\ pc' = "analyze"
    /\ UNCHANGED <<request, file, text, security_result, analyze_return, language_result,
                   translate_mode, chunks, translated_chunks, response, calls, harness>>

\* security_agent.analyze up to its await: the pattern check and the length
\* check return a verdict, otherwise the model is called.
Analyze ==
    /\ pc = "analyze"
    /\ stages' = Append(stages, "analyze")
    /\ IF LocalPath(sanitized_text) = "model"
       THEN /\ calls' = Append(calls, SecurityCall(sanitized_text))
            /\ pc' = "await_security"
            /\ UNCHANGED <<security_result, analyze_return>>
       ELSE /\ security_result' = LocalVerdict(sanitized_text)
            /\ analyze_return' = LocalPath(sanitized_text)
            /\ pc' = "screened"
            /\ UNCHANGED calls
    /\ UNCHANGED <<request, file, text, sanitized_text, language_result, translate_mode,
                   chunks, translated_chunks, response, harness>>

\* The model call of analyze returns or raises.
SecurityReply ==
    /\ pc = "await_security"
    /\ \E reply \in SecurityReplies :
          /\ security_result' = AnalyzeReply(reply)
          /\ analyze_return' = IF ~reply.ok \/ ModelVerdict(reply.json) = Raised
                               THEN "fail_open" ELSE "model"
    /\ pc' = "screened"
    /\ UNCHANGED <<request, file, text, sanitized_text, language_result, translate_mode,
                   chunks, translated_chunks, response, calls, stages, harness>>

\* if not security_result.is_safe: return the blocked response
Block ==
    /\ pc = "screened"
    /\ AfterScreening(security_result) = "blocked"
    /\ Respond(BlockedResponse(endpoint, text, security_result))
    /\ UNCHANGED <<request, file, text, sanitized_text, security_result, analyze_return,
                   language_result, translate_mode, chunks, translated_chunks, calls,
                   stages, harness>>

\* language_agent.detect(sanitized_text) up to its await
Detect ==
    /\ pc = "screened"
    /\ AfterScreening(security_result) = "detect"
    /\ stages' = Append(stages, "detect")
    /\ calls' = Append(calls, DetectCall(sanitized_text))
    /\ pc' = "await_detect"
    /\ UNCHANGED <<request, file, text, sanitized_text, security_result, analyze_return,
                   language_result, translate_mode, chunks, translated_chunks, response,
                   harness>>

\* The model call of detect returns or raises.
DetectionReply ==
    /\ pc = "await_detect"
    /\ \E reply \in DetectReplies : language_result' = DetectReply(reply)
    /\ pc' = "detected"
    /\ UNCHANGED <<request, file, text, sanitized_text, security_result, analyze_return,
                   translate_mode, chunks, translated_chunks, response, calls, stages,
                   harness>>

\* if language_agent.is_english(language_result): translated_text = sanitized_text
PassThrough ==
    /\ pc = "detected"
    /\ AfterDetection(language_result) = "passthrough"
    /\ Respond(SuccessResponse(text, language_result, sanitized_text,
                               PassThroughMessage(endpoint, text)))
    /\ UNCHANGED <<request, file, text, sanitized_text, security_result, analyze_return,
                   language_result, translate_mode, chunks, translated_chunks, calls,
                   stages, harness>>

\* translation_agent.translate(sanitized_text, language_result) up to its first
\* await: the English branch returns the text, otherwise the first call is made.
Translate ==
    /\ pc = "detected"
    /\ AfterDetection(language_result) = "translate"
    /\ stages' = Append(stages, "translate")
    /\ IF TranslateIsPassThrough(language_result)
       THEN /\ Respond(SuccessResponse(text, language_result, sanitized_text,
                                       TranslatedMessage(endpoint, language_result)))
            /\ UNCHANGED <<translate_mode, chunks, calls>>
       ELSE /\ translate_mode' = TranslateMode(sanitized_text)
            /\ chunks' = TranslateUnits(sanitized_text)
            /\ calls' = Append(calls, TranslateCall(TranslateUnits(sanitized_text)[1]))
            /\ pc' = "await_translation"
            /\ UNCHANGED response
    /\ UNCHANGED <<request, file, text, sanitized_text, security_result, analyze_return,
                   language_result, translated_chunks, harness>>

\* The model call of _translate_single returns or raises: the loop of
\* _translate_chunked goes on with the next chunk, translate returns and the
\* handler responds, or the exception reaches the handler's except clause.
TranslationReply ==
    /\ pc = "await_translation"
    /\ \E reply \in TranslateReplies(chunks[Len(translated_chunks) + 1]) :
          LET i == Len(translated_chunks) + 1
              after == AfterTranslateReply(reply.ok, i, Len(chunks))
              collected == CollectTranslated(translated_chunks, TranslatedOf(reply.content))
          IN IF after = "raise"
             THEN /\ Respond(InternalError(endpoint))
                  /\ UNCHANGED <<translated_chunks, calls>>
             ELSE IF after = "next"
             THEN /\ translated_chunks' = collected
                  /\ calls' = Append(calls, TranslateCall(chunks[i + 1]))
                  /\ UNCHANGED <<pc, response>>
             ELSE /\ translated_chunks' = collected
                  /\ Respond(SuccessResponse(text, language_result,
                                             AssembleTranslation(collected),
                                             TranslatedMessage(endpoint, language_result)))
                  /\ UNCHANGED calls
    /\ UNCHANGED <<request, file, text, sanitized_text, security_result, analyze_return,
                   language_result, translate_mode, chunks, stages, harness>>

Next ==
    \/ TextReceive
    \/ PdfReceive
    \/ Sanitize
    \/ Analyze
    \/ SecurityReply
    \/ Block
    \/ Detect
    \/ DetectionReply
    \/ PassThrough
    \/ Translate
    \/ TranslationReply

Spec == Init /\ [][Next]_vars

\* ------------------------------------------------------------------------
\* A direct call of _split_into_chunks on every text up to MaxLen
\* ------------------------------------------------------------------------

ChunkerInit ==
    /\ pc = "idle" /\ endpoint = "text" /\ OCR_AVAILABLE = FALSE
    /\ body = <<>> /\ file = NoFile
    /\ Fresh
    /\ arg \in ChunkTexts /\ ret = <<>> /\ upc = "call"

SplitIntoChunks ==
    /\ upc = "call"
    /\ ret' = _split_into_chunks(arg)
    /\ upc' = "returned"
    /\ UNCHANGED <<pc, endpoint, body, file, OCR_AVAILABLE, text, sanitized_text,
                   security_result, analyze_return, language_result, translate_mode,
                   chunks, translated_chunks, response, calls, stages, arg>>

ChunkerNext == SplitIntoChunks

ChunkerSpec == ChunkerInit /\ [][ChunkerNext]_vars

\* ------------------------------------------------------------------------
\* A direct call of analyze: any text, sanitized or not, of any length
\* ------------------------------------------------------------------------

TOO_LONG == Rep("a", MAX_INPUT_LENGTH + 1)

ScreenerTexts ==
    Bodies \cup
    { <<>>,
      TOO_LONG,
      Rep("a", MAX_INPUT_LENGTH) \o BLOCKED_PATTERNS[2],
      Upper(BLOCKED_PATTERNS[3]) \o Rep("a", MAX_INPUT_LENGTH),
      INST_A \o Rep("a", MAX_INPUT_LENGTH),
      Rep("a", MAX_INPUT_LENGTH) \o HEADING,
      Rep("a", MAX_INPUT_LENGTH - Len(HEADING)) \o HEADING,
      INST_A \o Upper(BLOCKED_PATTERNS[1]),
      BLOCKED_PATTERNS[4] \o HEADING \o Rep("a", MAX_INPUT_LENGTH) }

ScreenerInit ==
    /\ pc = "analyze" /\ endpoint = "text" /\ OCR_AVAILABLE = FALSE
    /\ body = <<>> /\ file = NoFile
    /\ text = <<>>
    /\ sanitized_text \in ScreenerTexts
    /\ security_result = NoVerdict
    /\ analyze_return = ""
    /\ language_result = NoLanguage
    /\ translate_mode = ""
    /\ chunks = <<>>
    /\ translated_chunks = <<>>
    /\ response = NoResponse
    /\ calls = <<>>
    /\ stages = <<>>
    /\ arg = <<>> /\ ret = <<>> /\ upc = "idle"

ScreenerNext ==
    \/ Analyze
    \/ SecurityReply

ScreenerSpec == ScreenerInit /\ [][ScreenerNext]_vars

\* ------------------------------------------------------------------------
\* A direct call of translate(arg, language_result)
\* ------------------------------------------------------------------------

\* Texts up to MaxLen - 3 characters, and the long bodies of the requests.
TranslatorTexts == UNION {[1..n -> ChunkAlphabet] : n \in 0..(MaxLen - 3)} \cup LongBodies

\* source_language: English, another language, the sentinel of a failed
\* detection, a code in upper case, and None.
SourceLanguages == {
    LanguageDetectionResult(EN, "English", 95),
    LanguageDetectionResult(<<"f", "r">>, "French", 90),
    LanguageDetectionResult(<<"E", "N">>, "English", 95),
    UnknownLanguage,
    NoLanguage }

TranslatorInit ==
    /\ pc = "idle" /\ endpoint = "text" /\ OCR_AVAILABLE = FALSE
    /\ body = <<>> /\ file = NoFile
    /\ text = <<>>
    /\ sanitized_text = <<>>
    /\ security_result = NoVerdict
    /\ analyze_return = ""
    /\ language_result \in SourceLanguages
    /\ translate_mode = ""
    /\ chunks = <<>>
    /\ translated_chunks = <<>>
    /\ response = NoResponse
    /\ calls = <<>>
    /\ stages = <<>>
    /\ arg \in TranslatorTexts /\ ret = <<>> /\ upc = "call"

\* translate up to its first await: the English branch returns the text,
\* otherwise the first call of _translate_single is made.
TranslateCalled ==
    /\ upc = "call"
    /\ IF TranslateIsPassThrough(language_result)
       THEN /\ ret' = arg
            /\ upc' = "returned"
            /\ UNCHANGED <<translate_mode, chunks, calls>>
       ELSE /\ translate_mode' = TranslateMode(arg)
            /\ chunks' = TranslateUnits(arg)
            /\ calls' = Append(calls, TranslateCall(TranslateUnits(arg)[1]))
            /\ upc' = "await"
            /\ UNCHANGED ret
    /\ UNCHANGED <<pc, endpoint, body, file, OCR_AVAILABLE, text, sanitized_text,
                   security_result, analyze_return, language_result, translated_chunks,
                   response, stages, arg>>

\* The call of _translate_single returns or raises: the next chunk is sent,
\* translate returns the joined translations, or the exception leaves translate.
TranslateReplied ==
    /\ upc = "await"
    /\ \E reply \in TranslateReplies(chunks[Len(translated_chunks) + 1]) :
          LET i == Len(translated_chunks) + 1
              after == AfterTranslateReply(reply.ok, i, Len(chunks))
              collected == CollectTranslated(translated_chunks, TranslatedOf(reply.content))
          IN IF after = "raise"
             THEN /\ upc' = "raised"
                  /\ UNCHANGED <<translated_chunks, calls, ret>>
             ELSE IF after = "next"
             THEN /\ translated_chunks' = collected
                  /\ calls' = Append(calls, TranslateCall(chunks[i + 1]))
                  /\ UNCHANGED <<upc, ret>>
             ELSE /\ translated_chunks' = collected
                  /\ ret' = AssembleTranslation(collected)
                  /\ upc' = "returned"
                  /\ UNCHANGED calls
    /\ UNCHANGED <<pc, endpoint, body, file, OCR_AVAILABLE, text, sanitized_text,
                   security_result, analyze_return, language_result, translate_mode,
                   chunks, response, stages, arg>>

TranslatorNext ==
    \/ TranslateCalled
    \/ TranslateReplied

TranslatorSpec == TranslatorInit /\ [][TranslatorNext]_vars

\* ------------------------------------------------------------------------
\* A direct call of extract_text(file)
\* ------------------------------------------------------------------------

NoExtraction == [ok |-> FALSE, used_ocr |-> FALSE, text |-> <<>>, error |-> <<>>]

ExtractorInit ==
    /\ pc = "idle" /\ endpoint = "pdf"
    /\ OCR_AVAILABLE \in BOOLEAN
    /\ body = <<>> /\ file \in Files
    /\ Fresh
    /\ arg = <<>> /\ ret = NoExtraction /\ upc = "call"

ExtractText ==
    /\ upc = "call"
    /\ ret' = extract_text(file, OCR_AVAILABLE)
    /\ upc' = "returned"
    /\ UNCHANGED <<pc, endpoint, body, file, OCR_AVAILABLE, text, sanitized_text,
                   security_result, analyze_return, language_result, translate_mode,
                   chunks, translated_chunks, response, calls, stages, arg>>

ExtractorNext == ExtractText

ExtractorSpec == ExtractorInit /\ [][ExtractorNext]_vars

\* ------------------------------------------------------------------------
\* Properties
\* ------------------------------------------------------------------------

\* The handler has invoked the agent method named stage.
Ran(stage) == \E i \in 1..Len(stages) : stages[i] = stage

\* The backend calls of one agent, in the order they were made.
CallsOf(kind) == SelectSeq(calls, LAMBDA c : c.kind = kind)

\* C1 -- Fail open.  Whenever analyze reaches the model call and the call
\* fails (an exception of the client, or a reply analyze cannot read), analyze
\* returns is_safe = true, status WARNING and risk_score 0.3, and the handler
\* goes on to the Detector: it never returns the blocked response.
FailOpenContinues ==
    analyze_return = "fail_open" =>
        /\ security_result.is_safe = TRUE
        /\ security_result.status = WARNING
        /\ security_result.risk_score = 30
        /\ Len(CallsOf("security")) = 1
        /\ pc = "screened" => ENABLED Detect /\ ~ENABLED Block
        /\ pc # "screened" => Ran("detect") /\ Len(CallsOf("detect")) = 1
        /\ pc = "done" => ~(response.status_code = 200 /\ response.success = FALSE)

FailOpenReachesDetector ==
    /\ analyze_return = "fail_open"
    /\ pc = "await_detect"
    /\ calls[Len(calls)].kind = "detect"

\* The text holds phrase at some position, whatever the case of its letters.
HoldsPhrase(t, phrase) ==
    LET shouted == Upper(t)
        wanted == Upper(phrase)
    IN \E i \in 1..(Len(t) - Len(phrase) + 1) :
          \A k \in 1..Len(phrase) : shouted[i + k - 1] = wanted[k]

HoldsBlockedPhrase(t) == \E k \in 1..Len(BLOCKED_PATTERNS) : HoldsPhrase(t, BLOCKED_PATTERNS[k])

\* C2 -- For every text with a configured blocked phrase in it, in any letter
\* case and at any position, analyze returns status BLOCKED, is_safe = false
\* and risk_score 0.9, and makes no call to the model backend.
BlockedPhraseBlocksWithoutModel ==
    (Ran("analyze") /\ HoldsBlockedPhrase(sanitized_text)) =>
        /\ security_result.status = BLOCKED
        /\ security_result.is_safe = FALSE
        /\ security_result.risk_score = 90
        /\ pc # "await_security"
        /\ CallsOf("security") = <<>>

BlockedPhraseMixedCaseInside ==
    /\ Ran("analyze")
    /\ pc = "screened"
    /\ HoldsBlockedPhrase(sanitized_text)
    /\ ~HoldsBlockedPhrase(Take(sanitized_text, Len(sanitized_text) - 1))
    /\ ~\E k \in 1..Len(BLOCKED_PATTERNS) : Contains(sanitized_text, BLOCKED_PATTERNS[k])
    /\ ~\E k \in 1..Len(BLOCKED_PATTERNS) : MatchAt(sanitized_text, 1, Upper(BLOCKED_PATTERNS[k]))
    /\ security_result.status = BLOCKED

\* C3 -- In the text and in the PDF pipeline a BLOCKED verdict ends the
\* request: detect and translate are never invoked after it, and the response
\* has success = false, security_status BLOCKED, an empty translated_text, the
\* reason of the block in its message, and as original_text a preview of the
\* text (its first 100 or 200 characters and an ellipsis) instead of the text.
BlockedIsTerminal ==
    security_result.status = BLOCKED =>
        /\ pc \in {"screened", "done"}
        /\ ~Ran("detect") /\ ~Ran("translate")
        /\ CallsOf("detect") = <<>> /\ CallsOf("translate") = <<>>
        /\ pc = "screened" => ENABLED Block /\ ~ENABLED Detect
        /\ pc = "done" =>
              /\ response.status_code = 200
              /\ response.success = FALSE
              /\ response.security_status = BLOCKED
              /\ response.translated_text = <<>>
              /\ security_result.reason # None =>
                    EndsWith(response.message, security_result.reason)
              /\ LET n == IF endpoint = "text" THEN 100 ELSE 200
                 IN IF Len(text) > n
                    THEN /\ response.original_text = SubSeq(text, 1, n) \o <<".", ".", ".">>
                         /\ response.original_text # text
                    ELSE response.original_text = text

BlockedLongPdfAnswered ==
    /\ pc = "done"
    /\ endpoint = "pdf"
    /\ security_result.status = BLOCKED
    /\ Len(text) > 200
    /\ response.success = FALSE

\* C4 -- The threshold invariant as stated for every verdict analyze returns,
\* the pattern block, the length block, the model-derived verdict and the
\* fail-open verdict alike: risk_score > 0.7 implies BLOCKED and is_safe =
\* false, risk_score in (0.4, 0.7] implies WARNING, any other score implies SAFE.
ThresholdInvariantOfEveryVerdict ==
    analyze_return # "" =>
        LET v == security_result
        IN /\ v.risk_score > 70 => v.status = BLOCKED /\ v.is_safe = FALSE
           /\ (v.risk_score > 40 /\ v.risk_score <= 70) => v.status = WARNING
           /\ v.risk_score <= 40 => v.status = SAFE

\* C4, amended -- Every verdict with risk_score > 0.7 is BLOCKED with is_safe =
\* false, and every BLOCKED verdict has is_safe = false.  A model-derived
\* verdict that is not BLOCKED is WARNING for a score in (0.4, 0.7] and SAFE
\* for a score up to 0.4; a model-derived verdict is BLOCKED at any score when
\* the is_safe of the reply is false.
\* The pattern block is BLOCKED at 0.9, the length block is BLOCKED at 0.7 and
\* the fail-open verdict is WARNING at 0.3.
ThresholdRuleByReturn ==
    /\ analyze_return # "" =>
          LET v == security_result
          IN /\ v.status \in {SAFE, WARNING, BLOCKED}
             /\ v.risk_score >= 0 /\ v.risk_score <= 100
             /\ v.risk_score > 70 => v.status = BLOCKED /\ v.is_safe = FALSE
             /\ v.status = BLOCKED => v.is_safe = FALSE
             /\ (analyze_return = "model" /\ v.status # BLOCKED) =>
                   /\ (v.risk_score > 40 /\ v.risk_score <= 70) => v.status = WARNING
                   /\ v.risk_score <= 40 => v.status = SAFE
             /\ analyze_return = "pattern" => v.status = BLOCKED /\ v.risk_score = 90
             /\ analyze_return = "length" => v.status = BLOCKED /\ v.risk_score = 70
             /\ analyze_return = "fail_open" => v.status = WARNING /\ v.risk_score = 30
    /\ pc = "await_security" =>
          \A reply \in SecurityReplies :
             (reply.ok /\ reply.json.is_safe \in {"false", "null"}
                /\ AnalyzeReply(reply) # FailOpenVerdict) =>
                   /\ AnalyzeReply(reply).status = BLOCKED
                   /\ AnalyzeReply(reply).is_safe = FALSE

ModelVerdictAtWarnThreshold ==
    /\ analyze_return = "model"
    /\ security_result.status = SAFE
    /\ security_result.risk_score = 40
    /\ security_result.is_safe = TRUE

\* The order of the agents: 1 security, 2 detect, 3 translate.
StageRank(kind) == IF kind = "security" THEN 1 ELSE IF kind = "detect" THEN 2 ELSE 3

\* The response is the early return of a blocked request.
BlockedOutcome == pc = "done" /\ response.status_code = 200 /\ response.success = FALSE

\* C5 -- Every request goes Sanitized -> Screened -> (Blocked | Detected ->
\* (PassthroughEnglish | Translated)).  sanitize_input runs before any backend
\* call and makes none, analyze runs once, detect runs once on every request
\* that is not blocked and only after analyze has returned, translate runs at
\* most once and only after detect has returned, and after a failure no stage
\* is invoked and no backend call is made again.
StageOrder ==
    LET core == IF stages # <<>> /\ stages[1] = "extract" THEN Tail(stages) ELSE stages
        order == <<"sanitize", "analyze", "detect", "translate">>
    IN /\ Len(core) <= Len(order)
       /\ \A i \in 1..Len(core) : core[i] = order[i]
       /\ (endpoint = "pdf" /\ stages # <<>>) => stages[1] = "extract"
       /\ ~Ran("analyze") => calls = <<>>
       /\ \A i, j \in 1..Len(calls) : i < j => StageRank(calls[i].kind) <= StageRank(calls[j].kind)
       /\ Len(CallsOf("security")) <= 1
       /\ Len(CallsOf("detect")) <= 1
       /\ Len(CallsOf("translate")) <= Len(chunks)
       /\ Len(CallsOf("detect")) = (IF Ran("detect") THEN 1 ELSE 0)
       /\ Ran("detect") => analyze_return # "" /\ security_result.is_safe /\ ~BlockedOutcome
       /\ BlockedOutcome => ~security_result.is_safe
       /\ Ran("translate") => language_result # NoLanguage
       /\ CallsOf("translate") # <<>> => Ran("translate")
       /\ (pc \in {"await_detect", "detected", "await_translation"}) => Ran("detect")
       /\ (pc = "done" /\ Ran("analyze")) => (BlockedOutcome \/ Ran("detect"))
       /\ (pc = "done" /\ response.status_code = 500) =>
             Len(CallsOf("translate")) = Len(translated_chunks) + 1

FailedPdfTranslationRanEachStageOnce ==
    /\ pc = "done"
    /\ response.status_code = 500
    /\ stages = <<"extract", "sanitize", "analyze", "detect", "translate">>
    /\ Len(CallsOf("security")) = 1
    /\ Len(CallsOf("translate")) = 2

\* The chunk is one sentence of the sentence splitter, longer than the limit.
OversizedSentence(chunk) ==
    Len(chunk) > MAX_CHUNK_SIZE /\ _split_into_sentences(chunk) = <<chunk>>

\* The text has no character other than whitespace.
Blank(t) == \A i \in 1..Len(t) : t[i] \in Whitespace

\* C6 -- For every text _split_into_chunks returns at least one chunk, and no
\* chunk is longer than the chunk limit unless it is exactly one sentence that
\* is itself longer than the limit.
ChunksWithinLimit ==
    upc = "returned" =>
        /\ Len(ret) >= 1
        /\ \A i \in 1..Len(ret) : Len(ret[i]) <= MAX_CHUNK_SIZE \/ OversizedSentence(ret[i])

\* C6, amended -- For every text _split_into_chunks returns at least one chunk,
\* and no chunk is longer than the chunk limit unless it is exactly one
\* sentence that is itself longer than the limit, or the text has no character
\* other than whitespace and is returned whole as the only chunk.
ChunksWithinLimitOrBlankText ==
    upc = "returned" =>
        /\ Len(ret) >= 1
        /\ \A i \in 1..Len(ret) :
              \/ Len(ret[i]) <= MAX_CHUNK_SIZE
              \/ OversizedSentence(ret[i])
              \/ Blank(arg) /\ ret = <<arg>>

OversizedSentenceIsOwnChunk ==
    /\ upc = "returned"
    /\ Len(ret) = 2
    /\ OversizedSentence(ret[1])
    /\ ret[2] # <<>> /\ Len(ret[2]) <= MAX_CHUNK_SIZE

\* The characters of a text that are not whitespace, in order.
NonWhitespace(t) == SelectSeq(t, LAMBDA c : c \notin Whitespace)

\* C7 -- For every text the chunks of _split_into_chunks, concatenated in order
\* with the whitespace added or removed by the buffering left aside, are the
\* content of the text in its order: nothing is lost, repeated or moved,
\* oversized sentences included.
ChunksPreserveContent ==
    upc = "returned" => NonWhitespace(Concat(ret)) = NonWhitespace(arg)

ContentKeptAcrossOversizedSentence ==
    /\ upc = "returned"
    /\ Len(ret) >= 2
    /\ \E i \in 1..Len(ret) : OversizedSentence(ret[i])
    /\ NonWhitespace(ret[Len(ret)]) # NonWhitespace(arg)
    /\ Concat(ret) # arg

\* The units _split_into_chunks buffers, in order, each with the separator the
\* buffer puts after it: the paragraphs, and for a paragraph longer than the
\* limit its sentences.
Unit(content, sep) == [content |-> content, sep |-> sep]

RECURSIVE UnitsOfParagraphs(_)
UnitsOfParagraphs(paragraphs) ==
    IF paragraphs = <<>> THEN <<>>
    ELSE LET para == Head(paragraphs)
             sentences == _split_into_sentences(para)
         IN (IF Len(para) > MAX_CHUNK_SIZE
             THEN [k \in 1..Len(sentences) |-> Unit(sentences[k], <<" ">>)]
             ELSE <<Unit(para, PARAGRAPH_SEP)>>)
            \o UnitsOfParagraphs(Tail(paragraphs))

UnitsOf(t) == UnitsOfParagraphs(Split(t, PARAGRAPH_SEP))

\* The length of units i..j in one buffer, as the flush test measures it: each
\* unit with its separator, the last unit without.
RECURSIVE GroupLength(_, _, _)
GroupLength(units, i, j) ==
    IF i = j THEN Len(units[j].content)
    ELSE Len(units[i].content) + Len(units[i].sep) + GroupLength(units, i + 1, j)

\* Units i..j may stand as one chunk: within the limit, or a single unit
\* (which no grouping can divide).
GroupFits(units, i, j) == i = j \/ GroupLength(units, i, j) <= MAX_CHUNK_SIZE

\* The least number of chunks an in-order grouping of units i.. can have.
RECURSIVE FewestGroups(_, _)
FewestGroups(units, i) ==
    IF i > Len(units) THEN 0
    ELSE 1 + Min({FewestGroups(units, j + 1) : j \in {k \in i..Len(units) : GroupFits(units, i, k)}})

\* C8 -- The chunk count is minimal: for every text no in-order grouping of the
\* same paragraph units (and sentence units of oversized paragraphs) into
\* chunks within the limit has fewer chunks than _split_into_chunks returns,
\* also when an oversized paragraph follows a partly filled buffer.
ChunkCountMinimal ==
    upc = "returned" => Len(ret) <= Max({1, FewestGroups(UnitsOf(arg), 1)})

\* What _translate_single returns for a chunk when its call succeeds: the
\* backend either marks the chunk it was sent or answers " T\n".
TranslationsOf(chunk) == {<<"[">> \o chunk \o <<"]">>, <<"T">>}

\* C9 -- On the chunked path the i-th translation call carries the i-th chunk
\* of the segmentation, one call at a time, and the text returned is the
\* translations of the chunks joined by a blank line in the order of the
\* chunks: none is moved, dropped or repeated.
ChunkedCallsAndResultInOrder ==
    translate_mode = "chunked" =>
        LET sent == CallsOf("translate")
        IN /\ chunks = _split_into_chunks(sanitized_text)
           /\ Len(sent) <= Len(chunks)
           /\ \A i \in 1..Len(sent) : sent[i].text = chunks[i]
           /\ Len(translated_chunks) <= Len(sent)
           /\ Len(sent) <= Len(translated_chunks) + 1
           /\ \A i \in 1..Len(translated_chunks) : translated_chunks[i] \in TranslationsOf(chunks[i])
           /\ (pc = "done" /\ response.success) =>
                 /\ Len(translated_chunks) = Len(chunks)
                 /\ \E parts \in [1..Len(chunks) -> UNION {TranslationsOf(chunks[i]) : i \in 1..Len(chunks)}] :
                       /\ \A i \in 1..Len(chunks) : parts[i] \in TranslationsOf(chunks[i])
                       /\ response.translated_text = Join(parts, <<"\n", "\n">>)

ThreeChunksTranslatedInOrder ==
    /\ pc = "done"
    /\ translate_mode = "chunked"
    /\ response.success
    /\ Len(chunks) = 3
    /\ translated_chunks[1] = <<"[">> \o chunks[1] \o <<"]">>
    /\ translated_chunks[2] = <<"T">>
    /\ translated_chunks[3] = <<"[">> \o chunks[3] \o <<"]">>

\* C10 -- If the backend call for a chunk k fails during a chunked
\* translation, translate raises and returns no partial result: the request
\* ends in the error response, never in a success response, chunk k is not
\* sent again and no call is made for a chunk after k.
ChunkFailureAborts ==
    (translate_mode = "chunked" /\ pc = "done") =>
        LET sent == CallsOf("translate")
            k == Len(translated_chunks) + 1
        IN \/ /\ response.status_code = 200 /\ response.success
              /\ Len(sent) = Len(chunks)
              /\ Len(translated_chunks) = Len(chunks)
              /\ \A i \in 1..Len(chunks) : translated_chunks[i] \in TranslationsOf(chunks[i])
           \/ /\ response.status_code = 500 /\ ~response.success
              /\ response.translated_text = <<>>
              /\ k <= Len(chunks)
              /\ Len(sent) = k
              /\ \A i \in 1..k : sent[i].text = chunks[i]
              /\ calls[Len(calls)] = sent[k]

SecondOfThreeChunksFailed ==
    /\ pc = "done"
    /\ translate_mode = "chunked"
    /\ response.status_code = 500
    /\ Len(chunks) = 3
    /\ Len(translated_chunks) = 1
    /\ Len(CallsOf("translate")) = 2

\* C11 -- The backend calls of translate when no call fails: none, and the
\* text returned unchanged, when the detected code is "en"; exactly one when
\* the code is not "en" and the text has at most 4000 characters; and for a
\* longer text as many calls as _split_into_chunks gives chunks, which is also
\* the number of translated segments joined in the text returned.
TranslateCallCount ==
    upc = "returned" =>
        IF language_result.language_code = <<"e", "n">>
        THEN calls = <<>> /\ ret = arg
        ELSE IF Len(arg) <= MAX_CHUNK_SIZE
        THEN /\ Len(calls) = 1
             /\ calls[1] = [kind |-> "translate", text |-> arg]
             /\ Len(translated_chunks) = 1
        ELSE /\ Len(calls) = Len(_split_into_chunks(arg))
             /\ \A i \in 1..Len(calls) : calls[i].kind = "translate"
             /\ Len(translated_chunks) = Len(calls)
             /\ ret = Join(translated_chunks, <<"\n", "\n">>)

ThreeCallsForThreeChunks ==
    /\ upc = "returned"
    /\ language_result.language_code # <<"e", "n">>
    /\ Len(arg) > MAX_CHUNK_SIZE
    /\ Len(calls) = 3
    /\ Len(_split_into_chunks(arg)) = 3

\* The request ended in the success response after detect gave the code "en".
EnglishDetectedAndAnswered ==
    pc = "done" /\ response.status_code = 200 /\ response.success
    /\ language_result.language_code = <<"e", "n">>

\* C12 -- English pass-through.  Whenever detect returns the code "en" no
\* translation call is made and translated_text of the response is the text
\* the caller sent, unchanged and equal to original_text of the response, for
\* every input (markup, null bytes and surrounding whitespace included), with
\* a message saying that no translation was needed.
EnglishReturnsInputUnchanged ==
    EnglishDetectedAndAnswered =>
        /\ CallsOf("translate") = <<>>
        /\ response.translated_text = response.original_text
        /\ endpoint = "text" => response.translated_text = body
        /\ response.message = PassThroughMessage(endpoint, text)

\* C12, amended -- Whenever detect returns the code "en" no translation call
\* is made, original_text of the response is the trimmed input (the extracted
\* text of a PDF), translated_text is that text as sanitize_input leaves it
\* (markup and null bytes removed, cut to the maximum length, trimmed), and
\* the message says that the text is already in English.
EnglishReturnsSanitizedInput ==
    EnglishDetectedAndAnswered =>
        /\ CallsOf("translate") = <<>>
        /\ ~Ran("translate")
        /\ endpoint = "text" => response.original_text = Strip(body)
        /\ response.original_text = text
        /\ response.translated_text = sanitize_input(response.original_text)
        /\ response.message =
              (IF endpoint = "text"
               THEN <<"Text is already in English. No translation needed.">>
               ELSE <<"PDF text is already in English. Extracted ", ToString(Len(text)),
                      " characters.">>)

EnglishWithMarkupAnswered ==
    /\ EnglishDetectedAndAnswered
    /\ endpoint = "text"
    /\ response.original_text = body
    /\ response.translated_text # body
    /\ Len(response.translated_text) < Len(body)

\* The reply makes detect leave its try block by an exception: the model call
\* raised, language_code has no lower(), float() rejects the confidence, or
\* the result model rejects the language name.
DetectionFails(reply) ==
    \/ ~reply.ok
    \/ reply.json.code_kind = "invalid"
    \/ reply.json.conf_kind = "invalid"
    \/ /\ reply.json.name_kind = "invalid"
       /\ (IF reply.json.code_kind = "absent" THEN UNKNOWN ELSE Lower(reply.json.language_code)) \notin DOMAIN LANGUAGE_NAMES

\* The result detect documents for a failure.
IsSentinel(result) ==
    result.language_code = <<"u", "n", "k", "n", "o", "w", "n">> /\ result.language_name = "Unknown" /\ result.confidence = 0

\* C13: detect never raises: whatever fails between its model call and its
\* result, it returns the sentinel (code "unknown", name "Unknown",
\* confidence 0); no request ends in a server error before the Translator
\* ran; and the handler treats the sentinel as a language other than English:
\* it invokes the Translator and makes a translation call.
DetectFailureGivesSentinel ==
    /\ pc = "await_detect" =>
           \A reply \in DetectReplies : DetectionFails(reply) => IsSentinel(DetectReply(reply))
    /\ pc = "done" /\ response.status_code = 500 => Ran("translate")
    /\ IsSentinel(language_result) =>
           /\ pc = "detected" => AfterDetection(language_result) = "translate"
           /\ pc \in {"await_translation", "done"} =>
                  Ran("translate") /\ CallsOf("translate") # <<>>
           /\ pc = "done" /\ response.success =>
                  response.message = TranslatedMessage(endpoint, language_result)

\* C13 witness: a request whose detection ended in the sentinel was translated
\* and answered with the language reported as "Unknown".
SentinelWasTranslated ==
    /\ pc = "done" /\ response.success /\ IsSentinel(language_result)
    /\ response.detected_language = "Unknown"
    /\ response.detected_language_confidence = 0
    /\ Len(CallsOf("detect")) = 1 /\ Len(CallsOf("translate")) >= 1

\* extract_text went on to extract_text_with_ocr: OCR ran, or the call
\* raised at once because OCR support is missing.
OcrInvoked(r) == r.used_ocr \/ r.error = ERROR_OCR_UNAVAILABLE

\* The cleaned text of the direct extraction of the file.
CleanedDirectText == clean_text(extract_text_with_pypdf2(file))

\* C14 as stated: for a file the reader accepts, extract_text invokes OCR
\* exactly when the cleaned direct text is empty or shorter than 50
\* characters; with 50 characters or more the direct text is returned and OCR
\* is not invoked.
OcrIffDirectTextBelowMinimum ==
    upc = "returned" /\ file.readable =>
        /\ OcrInvoked(ret) <=> Len(CleanedDirectText) < MIN_DIRECT_LENGTH
        /\ Len(CleanedDirectText) >= MIN_DIRECT_LENGTH =>
               ret.ok /\ ~ret.used_ocr /\ ret.text = CleanedDirectText

\* C14 amended: for a file the reader accepts, extract_text invokes OCR
\* exactly when the cleaned direct text is empty or at most 50 characters
\* long; with more than 50 characters the direct text is returned and OCR is
\* not invoked.
OcrIffDirectTextAtMostMinimum ==
    upc = "returned" /\ file.readable =>
        /\ OcrInvoked(ret) <=> Len(CleanedDirectText) <= MIN_DIRECT_LENGTH
        /\ Len(CleanedDirectText) > MIN_DIRECT_LENGTH =>
               ret.ok /\ ~ret.used_ocr /\ ret.text = CleanedDirectText

\* C14 witness: a file whose direct text is exactly 50 characters long was
\* read by OCR, and the text returned is the OCR text.
FiftyCharactersWentToOcr ==
    /\ upc = "returned" /\ file.readable
    /\ Len(CleanedDirectText) = MIN_DIRECT_LENGTH
    /\ ret.ok /\ ret.used_ocr /\ ret.text # CleanedDirectText

\* The direct text of the file is too short to be kept, so OCR is needed.
OcrNeeded(f) ==
    f.readable /\ Len(Strip(clean_text(extract_text_with_pypdf2(f)))) <= MIN_DIRECT_LENGTH

\* OCR converts the file and reads no text from it.
OcrReadsNothing(f) ==
    f.ocr_converts /\ \A i \in 1..Len(f.ocr_pages) : ~f.ocr_pages[i].ok \/ Strip(f.ocr_pages[i].text) = <<>>

\* What the step of translate_pdf that validates and extracts must do.
ExtractionStep ==
    pc = "start" /\ endpoint = "pdf" /\ validate_file(file.size, file.filename).is_valid =>
        LET r == extract_text(file, OCR_AVAILABLE)
        IN /\ r.ok => /\ Strip(r.text) # <<>>
                      /\ text' = r.text /\ pc' = "sanitize"
           /\ OcrNeeded(file) /\ ~OCR_AVAILABLE => ~r.ok /\ r.error = ERROR_OCR_UNAVAILABLE
           /\ OcrNeeded(file) /\ OCR_AVAILABLE /\ OcrReadsNothing(file) =>
                  ~r.ok /\ r.error = ERROR_NO_TEXT
           /\ ~r.ok => /\ pc' = "done" /\ response'.status_code = 400
                       /\ response'.detail = r.error
                       /\ calls' = <<>> /\ stages' = <<"extract">>

\* C15: extract_text never returns an empty or whitespace-only text: if OCR
\* is needed and unavailable it raises the OCR-unavailable error, if OCR reads
\* nothing it raises the no-text error; and in the PDF pipeline a request
\* whose extraction failed is answered at once: no Screener, Detector or
\* Translator call is ever made for it.
ExtractionNeverEmpty ==
    /\ [][ExtractionStep]_vars
    /\ [](endpoint = "pdf" /\ Ran("sanitize") => Strip(text) # <<>>)
    /\ [](endpoint = "pdf" /\ pc = "done" /\ response.status_code = 400 =>
              calls = <<>> /\ ~Ran("sanitize") /\ ~Ran("analyze")
              /\ ~Ran("detect") /\ ~Ran("translate"))

\* C15 witness: a PDF from which neither the direct extraction nor OCR read any
\* text was refused with the no-text error before any model call.
NoTextPdfRefused ==
    /\ endpoint = "pdf" /\ pc = "done" /\ response.status_code = 400
    /\ response.detail = <<"No text could be extracted from the PDF (tried both text extraction and OCR)">>
    /\ stages = <<"extract">> /\ calls = <<>>

\* The texts of the exceptions raised inside the Extractor and by the model
\* backend: what str(e) gives for them.
InternalExceptionTexts ==
    {NoFile.reader_error[1], NoFile.ocr_error[1]} \cup BACKEND_ERRORS

\* The messages the code fixes for a failed translation or extraction.
FixedFailureMessages ==
    {DETAIL_TEXT_ERROR, DETAIL_PDF_ERROR, ERROR_OCR_UNAVAILABLE, ERROR_NO_TEXT}

\* C16: every failure of the Translator or of the Extractor reaches the caller
\* as one of the fixed messages, and the text of the internal exception never
\* appears in the response of either endpoint.
FailuresAreGeneric ==
    pc = "done" /\ response.status_code \in {400, 500}
    /\ (Ran("extract") \/ Ran("translate")) =>
        /\ response.detail \in FixedFailureMessages
        /\ \A i \in 1..Len(response.detail) : response.detail[i] \notin InternalExceptionTexts

\* C17: analyze short-circuits in the order blocked phrase, injection pattern,
\* length, model.  The model is called if and only if the text holds no
\* blocked phrase, matches no injection pattern and is not longer than the
\* maximum input length, and then once; a text with a blocked phrase is
\* refused for the phrase also when it matches an injection pattern; a text
\* that passes the patterns and is too long is BLOCKED with risk_score 0.7;
\* a text that has a pattern and is too long gets the pattern verdict, 0.9.
ScreenerShortCircuits ==
    LET phrase == HoldsBlockedPhrase(sanitized_text)
        injection == MatchesInjectionPattern(sanitized_text)
        long == Len(sanitized_text) > MAX_INPUT_LENGTH
        blocked(reason, risk) ==
            /\ security_result.status = "blocked" /\ security_result.is_safe = FALSE
            /\ security_result.reason = reason /\ security_result.risk_score = risk
    IN Ran("analyze") =>
        /\ (CallsOf("security") # <<>>) <=> (~phrase /\ ~injection /\ ~long)
        /\ Len(calls) <= 1
        /\ pc = "screened" =>
              /\ phrase => blocked(REASON_BLOCKED_PATTERN, 90) /\ analyze_return = "pattern"
              /\ ~phrase /\ injection => blocked(REASON_INJECTION, 90) /\ analyze_return = "pattern"
              /\ ~phrase /\ ~injection /\ long => blocked(REASON_TOO_LONG, 70) /\ analyze_return = "length"
              /\ ~phrase /\ ~injection /\ ~long => analyze_return \in {"model", "fail_open"}

\* C17 witness: a text with an injection pattern in front of more than the
\* maximum input length of characters was refused for the pattern, with
\* risk_score 0.9 and without a model call.
PatternVerdictForTooLongText ==
    /\ pc = "screened" /\ Len(sanitized_text) > MAX_INPUT_LENGTH
    /\ ~HoldsBlockedPhrase(sanitized_text) /\ MatchesInjectionPattern(sanitized_text)
    /\ security_result.status = "blocked" /\ security_result.risk_score = 90
    /\ calls = <<>>


\* C18: in every response of either endpoint security_status is the status of
\* the verdict analyze returned for the request; a request whose verdict was
\* WARNING and that was translated reports WARNING, not SAFE.
ResponseReportsVerdictStatus ==
    pc = "done" /\ response.status_code = 200 /\ Ran("analyze") =>
        /\ response.security_status = security_result.status
        /\ security_result.status = "warning" /\ Ran("translate") =>
               response.security_status = "warning"

\* C19: every chunk _split_into_chunks returns for a text with at least one
\* character that is not whitespace is non-empty, so the chunked path makes
\* no translation call for an empty chunk; also when blank paragraphs (runs
\* of four or more newlines) lie between paragraphs that fill the buffer.
NoEmptyChunk ==
    upc = "returned" /\ (\E i \in 1..Len(arg) : arg[i] \notin {" ", "\n"}) =>
        \A i \in 1..Len(ret) : ret[i] # <<>>

\* C20: on both endpoints the text handed to analyze, detect and translate is
\* at most the maximum input length long, because sanitize_input truncates
\* before the screening; so no request of the pipeline ends with the length
\* verdict of analyze (BLOCKED, 0.7, "Input exceeds maximum length"), and a PDF
\* whose extracted text is longer than the maximum is never blocked for its
\* length: it is truncated and goes on through the stages.
SanitizedTextWithinMaximum ==
    /\ Ran("sanitize") =>
          /\ Len(sanitized_text) <= MAX_INPUT_LENGTH
          /\ Len(text) > MAX_INPUT_LENGTH => Len(sanitized_text) < Len(text)
    /\ \A i \in 1..Len(calls) : Len(calls[i].text) <= MAX_INPUT_LENGTH
    /\ \A i \in 1..Len(chunks) : Len(chunks[i]) <= MAX_INPUT_LENGTH
    /\ analyze_return # "length"
    /\ security_result.reason # REASON_TOO_LONG
    /\ pc = "done" /\ response.status_code = 200 /\ ~response.success =>
          /\ response.message # <<"Security Alert: ">> \o REASON_TOO_LONG
          /\ analyze_return \in {"pattern", "model"}
    /\ Ran("analyze") /\ Len(text) > MAX_INPUT_LENGTH /\ ~HoldsBlockedPhrase(sanitized_text)
       /\ ~MatchesInjectionPattern(sanitized_text) =>
          CallsOf("security") # <<>>

\* C20 witness: a PDF whose extracted text is longer than the maximum input
\* length was cut to the maximum, screened by the model, translated and
\* answered with success.
TooLongPdfTranslated ==
    /\ endpoint = "pdf" /\ pc = "done" /\ response.success
    /\ Len(text) > MAX_INPUT_LENGTH /\ Len(sanitized_text) = MAX_INPUT_LENGTH
    /\ response.original_text = text
    /\ Ran("translate") /\ CallsOf("translate") # <<>>

\* C21: no backend model call (screening, detection or translation) is made
\* for a request whose sanitized text is empty: an input that is not empty
\* before sanitize_input and empty after it is refused as a validation error,
\* like an empty input, before the Screener runs.
NoCallForEmptySanitizedText ==
    Ran("sanitize") /\ sanitized_text = <<>> =>
        /\ calls = <<>>
        /\ ~Ran("analyze") /\ ~Ran("detect") /\ ~Ran("translate")
        /\ pc = "done" => response.status_code = 400

====
